---- MODULE Spec2Model ----
(***************************************************************************)
(* Motion-capture transcoding pipeline (dataset/python):                   *)
(*   add_tpose_and_rename_clips.py  - header layout parser and the         *)
(*                                    reference-pose (T-pose) synthesizer  *)
(*   smpl_bvh_to_smpl_npz.py        - channel canonicalizer and the joint  *)
(*                                    remapper / rotation converter        *)
(* Each batch function is a state machine over its loop; the pure helpers  *)
(* are operators.  Python's 0-based column numbers are kept; a Python      *)
(* column c is position c + 1 of a TLA+ sequence.                          *)
(***************************************************************************)
EXTENDS Integers, Sequences, FiniteSets, TLC

VARIABLES
    \* _parse_joint_channels_from_header, applied as a pure function
    header_lines, joint_to_layout,
    \* prepend_tpose_frame
    work_dir, bvh_paths, tpose_ref_layout, tpose_ref_frame0,
    tpose_ref_path_used, force_zero_rotation_joints,
    ref_read, tp_pc, tp_i, tp_read, tp_out, tp_written,
    \* build_smpl_bvh
    cn_files, smpl_header, cn_pc, cn_i, cn_read, cn_out, cn_written,
    \* build_smpl_npz
    smpl_joint_names, bvh_joint_names,
    nz_files, trans_scale, nz_pc, nz_i, nz_read, rotation_s, nz_out, nz_written,
    \* the three steps run one after the other on the files of one directory tree
    stage, disk

parseVars == <<header_lines, joint_to_layout>>
tposeVars == <<work_dir, bvh_paths, tpose_ref_layout, tpose_ref_frame0,
               tpose_ref_path_used, force_zero_rotation_joints,
               ref_read, tp_pc, tp_i, tp_read, tp_out, tp_written>>
canonVars == <<cn_files, smpl_header, cn_pc, cn_i, cn_read, cn_out, cn_written>>
npzVars == <<smpl_joint_names, bvh_joint_names,
             nz_files, trans_scale, nz_pc, nz_i, nz_read, rotation_s, nz_out, nz_written>>
runVars == <<stage, disk>>
vars == <<parseVars, tposeVars, canonVars, npzVars, runVars>>

(***************************************************************************)
(* Bounds of the model.                                                    *)
(***************************************************************************)
\* joints in a generated well-formed header
MaxJoints == 3
\* lines in a generated arbitrary (possibly malformed) header
MaxLines == 3
\* clips in one batch (bvh_paths, files)
MaxClips == 2
\* frames in one clip
MaxFrames == 2

(***************************************************************************)
(* Python values.                                                          *)
(***************************************************************************)
\* Python's None, and a value that may be None where the model needs one type
None == [none |-> TRUE]
Some(x) == [some |-> x]

Min(a, b) == IF a < b THEN a ELSE b
Max(a, b) == IF a > b THEN a ELSE b

\* seq[lo:hi] of Python for lo >= 0: a negative hi counts from the end, and
\* both ends are clamped to the length
PySlice(seq, lo, hi) ==
    LET n == Len(seq)
        h == IF hi < 0 THEN Max(0, n + hi) ELSE Min(hi, n)
        l == Min(lo, n)
    IN IF h <= l THEN <<>> ELSE SubSeq(seq, l + 1, h)

\* list.index(x): the 0-based position of the first occurrence
PyIndex(seq, x) == (CHOOSE k \in 1..Len(seq) : seq[k] = x /\ \A m \in 1..(k - 1) : seq[m] # x) - 1

InSeq(seq, x) == \E k \in 1..Len(seq) : seq[k] = x

\* a dict in insertion order: keys in order of first insertion, val the mapping
EmptyDict == [keys |-> <<>>, val |-> [k \in {} |-> None]]
DictHas(d, k) == k \in DOMAIN d.val
DictSet(d, k, v) ==
    [keys |-> IF DictHas(d, k) THEN d.keys ELSE Append(d.keys, k),
     val |-> (k :> v) @@ d.val]
DictGet(d, k, default) == IF DictHas(d, k) THEN d.val[k] ELSE default

\* numpy arrays: ndim, shape and the rows (the scalars, for a 1-D array)
Array1(vec) == [ndim |-> 1, shape |-> <<Len(vec)>>, rows |-> vec]
Array2(rows, ncols) == [ndim |-> 2, shape |-> <<Len(rows), ncols>>, rows |-> rows]

(***************************************************************************)
(* _parse_joint_channels_from_header.  A header line is the token list     *)
(* s.split() gives for it; numbers in a header are text until int() reads  *)
(* them.                                                                   *)
(***************************************************************************)
\* int(parts[1]): the tokens int() accepts, with their values
IntOfToken ==
    ("0" :> 0) @@ ("1" :> 1) @@ ("2" :> 2) @@ ("3" :> 3) @@ ("4" :> 4) @@
    ("5" :> 5) @@ ("6" :> 6) @@ ("7" :> 7) @@ ("-1" :> (0 - 1)) @@ ("-4" :> (0 - 4))

\* s.startswith(kw + " ") on the stripped line: the keyword and something after it
StartsWith(parts, kw) == Len(parts) >= 2 /\ parts[1] = kw

\* ParseLine with a JOINT line that does not become the current joint
ParseLine_JointNotCurrent(st, parts) ==
    IF StartsWith(parts, "ROOT")
    THEN [st EXCEPT !.current_joint = Some(parts[2]),
                    !.joint_order = Append(st.joint_order, parts[2])]
    ELSE IF StartsWith(parts, "JOINT")
    THEN [st EXCEPT !.joint_order = Append(st.joint_order, parts[2])]
    ELSE IF StartsWith(parts, "CHANNELS")
    THEN IF st.current_joint = None \/ Len(parts) < 3 \/ parts[2] \notin DOMAIN IntOfToken
         THEN st
         ELSE [st EXCEPT !.joint_channels =
                  (st.current_joint.some :> PySlice(parts, 2, 2 + IntOfToken[parts[2]])) @@ @]
    ELSE st

\* ParseLine passing over a declaration of more than six channels
ParseLine_AtMostSix(st, parts) ==
    IF StartsWith(parts, "ROOT") \/ StartsWith(parts, "JOINT")
    THEN [st EXCEPT !.current_joint = Some(parts[2]),
                    !.joint_order = Append(st.joint_order, parts[2])]
    ELSE IF StartsWith(parts, "CHANNELS")
    THEN IF st.current_joint = None THEN st
         ELSE IF Len(parts) < 3 THEN st
         ELSE IF parts[2] \notin DOMAIN IntOfToken THEN st
         ELSE IF IntOfToken[parts[2]] > 6 THEN st
         ELSE [st EXCEPT !.joint_channels =
                  (st.current_joint.some :> PySlice(parts, 2, 2 + IntOfToken[parts[2]])) @@ @]
    ELSE st

\* one turn of the loop over header_lines (lines 69-91); st is
\* [joint_order, joint_channels, current_joint]
ParseLine(st, parts) ==
    IF StartsWith(parts, "ROOT") \/ StartsWith(parts, "JOINT")
    THEN [st EXCEPT !.current_joint = Some(parts[2]),
                    !.joint_order = Append(st.joint_order, parts[2])]
    ELSE IF StartsWith(parts, "CHANNELS")
    THEN IF st.current_joint = None THEN st
         ELSE IF Len(parts) < 3 THEN st
         ELSE IF parts[2] \notin DOMAIN IntOfToken THEN st
         ELSE [st EXCEPT !.joint_channels =
                  (st.current_joint.some :> PySlice(parts, 2, 2 + IntOfToken[parts[2]])) @@ @]
    ELSE st

RECURSIVE ParseLines(_, _)
ParseLines(st, lines) ==
    IF lines = <<>> THEN st ELSE ParseLines(ParseLine(st, Head(lines)), Tail(lines))

\* the second loop (lines 93-98): start columns in joint_order
RECURSIVE BuildLayout(_, _, _, _)
BuildLayout(joint_order, joint_channels, col, acc) ==
    IF joint_order = <<>> THEN acc
    ELSE LET j == Head(joint_order)
             ch == IF j \in DOMAIN joint_channels THEN joint_channels[j] ELSE <<>>
         IN BuildLayout(Tail(joint_order), joint_channels, col + Len(ch),
                        DictSet(acc, j, [start |-> col, channels |-> ch]))

ParseJointChannelsFromHeader(lines) ==
    LET st == ParseLines([joint_order |-> <<>>,
                          joint_channels |-> [k \in {} |-> <<>>],
                          current_joint |-> None], lines)
    IN BuildLayout(st.joint_order, st.joint_channels, 0, EmptyDict)

(***************************************************************************)
(* Headers the parser is applied to.                                       *)
(***************************************************************************)
JointNames == {"Hips", "Spine", "UpperArm_L", "UpperArm_R"}

Channels6 == <<"Xposition", "Yposition", "Zposition", "Zrotation", "Xrotation", "Yrotation">>
Channels3 == <<"Zrotation", "Xrotation", "Yrotation">>
Channels1 == <<"Yrotation">>
ChannelLists == {Channels6, Channels3, Channels1}

\* the text of a count
TokenOfInt(n) == CHOOSE t \in DOMAIN IntOfToken : IntOfToken[t] = n

ChannelsLine(ch) == <<"CHANNELS", TokenOfInt(Len(ch))>> \o ch

\* ROOT name { OFFSET x y z  CHANNELS n ... for the first joint, JOINT for the rest
JointBlock(k, name, ch) ==
    << <<(IF k = 1 THEN "ROOT" ELSE "JOINT"), name>>, <<"{">>,
       <<"OFFSET", "0", "0", "0">>, ChannelsLine(ch) >>

RECURSIVE HeaderOf(_, _, _)
HeaderOf(names, chans, k) ==
    IF k > Len(names) THEN << <<"MOTION">> >>
    ELSE JointBlock(k, names[k], chans[k]) \o HeaderOf(names, chans, k + 1)

\* generated headers: distinct joints in any order, each with one CHANNELS
\* declaration of one of the channel lists
JointSeqs(n) == {js \in [1..n -> JointNames] : \A a, b \in 1..n : a # b => js[a] # js[b]}
GeneratedHeaders ==
    { HeaderOf(p[1], p[2], 1) :
        p \in UNION { JointSeqs(n) \X [1..n -> ChannelLists] : n \in 0..MaxJoints } }

\* lines of partial or malformed headers
HeaderLineChoices ==
    { <<"ROOT", "Hips">>, <<"JOINT", "Spine">>, <<"End", "Site">>,
      ChannelsLine(Channels6), ChannelsLine(Channels3),
      \* seven channel names, one more than the format has
      <<"CHANNELS", "7">> \o Channels6 \o <<"Wrotation">>,
      \* a count smaller than the names that follow, a count that is no number,
      \* a count with no names, a negative count
      <<"CHANNELS", "2">> \o Channels3, <<"CHANNELS", "three">> \o Channels3,
      <<"CHANNELS", "0">>, <<"CHANNELS", "-1">> \o Channels3 }
ArbitraryHeaders == UNION { [1..n -> HeaderLineChoices] : n \in 0..MaxLines }

Headers == GeneratedHeaders \cup ArbitraryHeaders

\* what a header declares, read off its lines without the parser
IsJointLine(parts) == StartsWith(parts, "ROOT") \/ StartsWith(parts, "JOINT")
IsChannelsLine(parts) == Len(parts) >= 1 /\ parts[1] = "CHANNELS"
IsDeclLine(parts) == IsJointLine(parts) \/ IsChannelsLine(parts)
DeclLines(lines) == SelectSeq(lines, IsDeclLine)
DeclaredJoints(lines) ==
    LET js == SelectSeq(lines, IsJointLine) IN [k \in 1..Len(js) |-> js[k][2]]
\* a CHANNELS line whose count is the number of names it lists, at least one
ProperChannelsLine(parts) ==
    /\ IsChannelsLine(parts) /\ Len(parts) >= 3
    /\ parts[2] \in DOMAIN IntOfToken
    /\ IntOfToken[parts[2]] = Len(parts) - 2
\* unique joint names, each joint followed by one CHANNELS declaration
WellFormed(lines) ==
    LET d == DeclLines(lines)
        js == DeclaredJoints(lines)
    IN /\ Len(d) = 2 * Len(js)
       /\ \A k \in 1..Len(d) :
            IF k % 2 = 1 THEN IsJointLine(d[k]) ELSE ProperChannelsLine(d[k])
       /\ \A a, b \in 1..Len(js) : a # b => js[a] # js[b]
\* the channel count the k-th CHANNELS line of a well-formed header declares
DeclaredCount(lines, k) == IntOfToken[DeclLines(lines)[2 * k][2]]
RECURSIVE SumCounts(_, _)
SumCounts(lines, k) == IF k = 0 THEN 0 ELSE DeclaredCount(lines, k) + SumCounts(lines, k - 1)
TotalChannels(lines) == SumCounts(lines, Len(DeclaredJoints(lines)))

(***************************************************************************)
(* bvh.bvhreader, the motion file reader: it raises, or returns the frame  *)
(* matrix, the sample rate and the header lines.  A file of exactly one    *)
(* frame may come back as a 1-D array (comment at line 173).               *)
(***************************************************************************)
ReadRaises == [ok |-> FALSE]
ReadResult(data, fs, header) == [ok |-> TRUE, data |-> data, fs |-> fs, header |-> header]

\* frame r of a clip of the given width: "distinct" gives every column of every
\* frame its own nonzero value, "rest" is all zeros but one translation value
ClipFrame(pattern, r, width) ==
    [k \in 1..width |->
        IF pattern = "distinct" THEN 100 * r + k ELSE IF k = 2 THEN 100 ELSE 0]
ClipRows(pattern, T, width) == [r \in 1..T |-> ClipFrame(pattern, r, width)]

\* the clips' headers: the usual root of 6 channels and joints of 3; a root
\* with rotations only and a joint of 6; a partial header whose Spine has no
\* CHANNELS line
ClipHeaderA == HeaderOf(<<"Hips", "Spine", "UpperArm_L">>, <<Channels6, Channels3, Channels3>>, 1)
ClipHeaderB == HeaderOf(<<"Hips", "UpperArm_R", "UpperArm_L">>, <<Channels3, Channels6, Channels1>>, 1)
ClipHeaderC ==
    << <<"ROOT", "Hips">>, ChannelsLine(Channels6), <<"JOINT", "Spine">>,
       <<"JOINT", "UpperArm_L">>, ChannelsLine(Channels3), <<"MOTION">> >>
\* header and width of the frame matrix; the partial header comes with a
\* matrix one column narrower than its layout
ClipShapes == { <<ClipHeaderA, 12>>, <<ClipHeaderB, 10>>, <<ClipHeaderC, 8>> }

ClipReads ==
    {ReadRaises}
    \cup { ReadResult(Array2(ClipRows(pt, T, sh[2]), sh[2]), 30, sh[1]) :
             pt \in {"distinct", "rest"}, T \in 0..MaxFrames, sh \in ClipShapes }
    \cup { ReadResult(Array1(ClipFrame("distinct", 1, sh[2])), 30, sh[1]) : sh \in ClipShapes }

\* the reference pose files: other channel orders and counts per joint than the
\* clips have, no Spine in the first, a one-channel root in the second
RefHeaderA ==
    HeaderOf(<<"Hips", "UpperArm_L", "UpperArm_R">>,
             <<Channels6, <<"Yrotation", "Xrotation", "Zrotation">>, Channels3>>, 1)
RefHeaderB == HeaderOf(<<"Hips", "Spine", "UpperArm_L">>, <<Channels1, Channels3, Channels3>>, 1)
\* the second reference's frames are one column narrower than its layout
RefShapes == { <<RefHeaderA, 12>>, <<RefHeaderB, 6>> }
RefFrame(r, width) == [k \in 1..width |-> 1000 + 100 * r + k]

RefReads ==
    {ReadRaises}
    \cup { ReadResult(Array2([r \in 1..T |-> RefFrame(r, sh[2])], sh[2]), 30, sh[1]) :
             T \in {0, 2}, sh \in RefShapes }
    \cup { ReadResult(Array1(RefFrame(1, w)), 30, RefHeaderA) : w \in {0, 12} }

(***************************************************************************)
(* File names of the work directory, as prefix + sep + tag + ext.          *)
(***************************************************************************)
FileName(prefix, sep, tag, ext) == [prefix |-> prefix, sep |-> sep, tag |-> tag, ext |-> ext]
\* "T-pose.bvh", "T-pose-bandai.bvh", "T-pose-Motorica.BVH", "T-pose-notes.txt"
TPoseExact == FileName("T-pose", "", "", ".bvh")
TPoseBandai == FileName("T-pose", "-", "bandai", ".bvh")
TPoseMotorica == FileName("T-pose", "-", "Motorica", ".BVH")
TPoseNotes == FileName("T-pose", "-", "notes", ".txt")
FileNameChoices == {TPoseExact, TPoseBandai, TPoseMotorica, TPoseNotes}

\* str.lower() on the parts of these names
Lower(str) ==
    IF str = "Motorica" THEN "motorica" ELSE IF str = ".BVH" THEN ".bvh" ELSE str

\* sorted(os.listdir(work_dir)): code-point order, capitals before small
\* letters and "-" before "."
SortedNames == <<TPoseMotorica, TPoseBandai, TPoseNotes, TPoseExact>>
SortedListdir(entries) == SelectSeq(SortedNames, LAMBDA fn : fn \in entries)

(***************************************************************************)
(* prepend_tpose_frame: resolving the optional reference T-pose            *)
(* (lines 146-183).                                                        *)
(***************************************************************************)
\* MatchesTPosePattern comparing the extension as it is written
MatchesTPosePattern_CaseSensitive(fn) == fn.prefix = "T-pose" /\ fn.sep = "-" /\ fn.ext = ".bvh"

\* fn.startswith("T-pose-") and fn.lower().endswith(".bvh")
MatchesTPosePattern(fn) == fn.prefix = "T-pose" /\ fn.sep = "-" /\ Lower(fn.ext) = ".bvh"
\* "bandai" in os.path.basename(path).lower()
ContainsBandai(fn) == Lower(fn.tag) = "bandai"

\* T-pose.bvh, then the listed T-pose-*.bvh names; a listing that raises adds none
Candidates(wd) ==
    <<TPoseExact>> \o
        (IF wd.listable THEN SelectSeq(SortedListdir(wd.entries), MatchesTPosePattern)
         ELSE <<>>)

\* the first candidate that exists, or None
RECURSIVE FirstExisting(_, _)
FirstExisting(cands, entries) ==
    IF cands = <<>> THEN None
    ELSE IF Head(cands) \in entries THEN Head(cands)
    ELSE FirstExisting(Tail(cands), entries)

ReferencePath(wd) == FirstExisting(Candidates(wd), wd.entries)

NoReference ==
    [tpose_ref_layout |-> None, tpose_ref_frame0 |-> None,
     tpose_ref_path_used |-> None, force_zero_rotation_joints |-> {}]

\* np.expand_dims(a, axis=0) of a 1-D array
ExpandDims(a) == Array2(<<a.rows>>, a.shape[1])

\* ResolveReference whose except block resets nothing
ResolveReference_NoReset(wd, rd) ==
    LET path == ReferencePath(wd)
        force == IF ContainsBandai(path) THEN {"UpperArm_L", "UpperArm_R"} ELSE {}
        ref_data == IF rd.data.ndim = 1 THEN ExpandDims(rd.data) ELSE rd.data
    IN IF path = None THEN NoReference
       ELSE IF rd.ok /\ ref_data.ndim = 2 /\ ref_data.shape[1] >= 1
       THEN [tpose_ref_layout |-> ParseJointChannelsFromHeader(rd.header),
             tpose_ref_frame0 |-> Array1(ref_data.rows[1]),
             tpose_ref_path_used |-> path, force_zero_rotation_joints |-> force]
       ELSE [tpose_ref_layout |-> None, tpose_ref_frame0 |-> None,
             tpose_ref_path_used |-> path, force_zero_rotation_joints |-> force]

\* the try block, given the reader's answer rd for the file used
ResolveReference(wd, rd) ==
    LET path == ReferencePath(wd)
        force == IF ContainsBandai(path) THEN {"UpperArm_L", "UpperArm_R"} ELSE {}
        ref_data == IF rd.data.ndim = 1 THEN ExpandDims(rd.data) ELSE rd.data
    IN IF path = None THEN NoReference
       ELSE IF ~rd.ok THEN NoReference
       ELSE IF ref_data.ndim = 2 /\ ref_data.shape[1] >= 1
       THEN [tpose_ref_layout |-> ParseJointChannelsFromHeader(rd.header),
             tpose_ref_frame0 |-> Array1(ref_data.rows[1]),
             tpose_ref_path_used |-> path, force_zero_rotation_joints |-> force]
       ELSE [tpose_ref_layout |-> None, tpose_ref_frame0 |-> None,
             tpose_ref_path_used |-> path, force_zero_rotation_joints |-> force]

(***************************************************************************)
(* prepend_tpose_frame: the body of the loop over the clips                *)
(* (lines 191-233).                                                        *)
(***************************************************************************)
\* ch.endswith("rotation")
EndsWithRotation(ch) == ch \in {"Xrotation", "Yrotation", "Zrotation", "Wrotation"}

\* frame[idx] = v under the guard 0 <= idx < frame.shape[0]
SetColumn(frame, idx, v) ==
    IF 0 <= idx /\ idx < Len(frame) THEN [frame EXCEPT ![idx + 1] = v] ELSE frame

\* ZeroChannels without the test for a rotation channel
RECURSIVE ZeroChannels_EveryChannel(_, _, _)
ZeroChannels_EveryChannel(frame, info, k) ==
    IF k > Len(info.channels) THEN frame
    ELSE ZeroChannels_EveryChannel(
           SetColumn(frame, info.start + PyIndex(info.channels, info.channels[k]), 0),
           info, k + 1)

\* lines 199-204 for one joint, from its k-th channel on
RECURSIVE ZeroChannels(_, _, _)
ZeroChannels(frame, info, k) ==
    IF k > Len(info.channels) THEN frame
    ELSE LET ch == info.channels[k]
         IN ZeroChannels(
              IF EndsWithRotation(ch)
              THEN SetColumn(frame, info.start + PyIndex(info.channels, ch), 0)
              ELSE frame,
              info, k + 1)

\* lines 196-204 from the j-th joint of the layout on
RECURSIVE ZeroRotations(_, _, _)
ZeroRotations(frame, layout, j) ==
    IF j > Len(layout.keys) THEN frame
    ELSE ZeroRotations(ZeroChannels(frame, layout.val[layout.keys[j]], 1), layout, j + 1)

\* CopyChannels reading the reference by column position, not by channel name
RECURSIVE CopyChannels_ByPosition(_, _, _, _, _)
CopyChannels_ByPosition(frame, dst_info, src_info, ref_frame0, k) ==
    IF k > Len(dst_info.channels) THEN frame
    ELSE LET ch_name == dst_info.channels[k]
             dst_idx == dst_info.start + (k - 1)
             src_idx == src_info.start + (k - 1)
         IN CopyChannels_ByPosition(
              IF /\ EndsWithRotation(ch_name)
                 /\ 0 <= dst_idx /\ dst_idx < Len(frame)
                 /\ 0 <= src_idx /\ src_idx < ref_frame0.shape[1]
              THEN [frame EXCEPT ![dst_idx + 1] = ref_frame0.rows[src_idx + 1]]
              ELSE frame,
              dst_info, src_info, ref_frame0, k + 1)

\* lines 221-229 for one joint, from its k-th channel on
RECURSIVE CopyChannels(_, _, _, _, _)
CopyChannels(frame, dst_info, src_info, ref_frame0, k) ==
    IF k > Len(dst_info.channels) THEN frame
    ELSE LET ch_name == dst_info.channels[k]
             dst_idx == dst_info.start + PyIndex(dst_info.channels, ch_name)
             src_idx == src_info.start + PyIndex(src_info.channels, ch_name)
         IN CopyChannels(
              IF /\ EndsWithRotation(ch_name)
                 /\ InSeq(src_info.channels, ch_name)
                 /\ 0 <= dst_idx /\ dst_idx < Len(frame)
                 /\ 0 <= src_idx /\ src_idx < ref_frame0.shape[1]
              THEN [frame EXCEPT ![dst_idx + 1] = ref_frame0.rows[src_idx + 1]]
              ELSE frame,
              dst_info, src_info, ref_frame0, k + 1)

\* lines 209-229 from the j-th joint of the layout on
RECURSIVE CopyReference(_, _, _, _, _, _)
CopyReference(frame, layout, ref_layout, ref_frame0, force_zero, j) ==
    IF j > Len(layout.keys) THEN frame
    ELSE LET joint_name == layout.keys[j]
         IN CopyReference(
              IF joint_name \in force_zero \/ ~DictHas(ref_layout, joint_name) THEN frame
              ELSE CopyChannels(frame, layout.val[joint_name],
                                ref_layout.val[joint_name], ref_frame0, 1),
              layout, ref_layout, ref_frame0, force_zero, j + 1)

\* tpose_1d of lines 192-229
TposeFrame(first_frame, layout, ref_layout, ref_frame0, force_zero) ==
    LET zeroed == ZeroRotations(first_frame, layout, 1)
    IN IF ref_layout # None /\ ref_frame0 # None
       THEN CopyReference(zeroed, layout, ref_layout, ref_frame0, force_zero, 1)
       ELSE zeroed

\* PrependTposeFrame with first_frame = data[0] and no copy: the zeroing and
\* the reference copy write through to the clip's first row
PrependTposeFrame_NoCopy(data, header, ref_layout, ref_frame0, force_zero) ==
    LET layout == ParseJointChannelsFromHeader(header)
        tpose_1d == TposeFrame(data.rows[1], layout, ref_layout, ref_frame0, force_zero)
    IN Array2(<<tpose_1d, tpose_1d>> \o Tail(data.rows), data.shape[2])

\* data_new of line 233 for a clip whose shape passed the check of line 188;
\* data[0].copy() leaves the clip's own rows as they were read
PrependTposeFrame(data, header, ref_layout, ref_frame0, force_zero) ==
    LET layout == ParseJointChannelsFromHeader(header)
        tpose_1d == TposeFrame(data.rows[1], layout, ref_layout, ref_frame0, force_zero)
    IN Array2(<<tpose_1d>> \o data.rows, data.shape[2])

\* data.ndim != 2 or data.shape[0] < 1 (line 188)
UnexpectedShape(data) == data.ndim # 2 \/ data.shape[1] < 1

\* os.path.splitext(os.path.basename(src_path))[0] joined to the output directory
OutName(dir, src_path) == [dir |-> dir, base |-> src_path.base]
\* the arguments of a bvh.bvhoutput call
Output(data, fs, out_name, header) ==
    [data |-> data, fs |-> fs, out_name |-> out_name, header |-> header]

(***************************************************************************)
(* smpl_bvh_to_smpl_npz.py: sample_every_three_2d and the body of          *)
(* build_smpl_bvh's loop.  A call either returns a value or raises.        *)
(***************************************************************************)
Returns(value) == [ok |-> TRUE, value |-> value]
Raises(error) == [ok |-> FALSE, error |-> error]

\* 24 joints of 3 channels (line 75)
CanonicalWidth == 72

\* SampleRow stepping by 3: every triple is kept
SampleRow_EveryTriple(row, from) == PySlice(row, from, Len(row))

\* lines 80-82: row[i : i + 3] for i = from, from + 6, ...
RECURSIVE SampleRow(_, _)
SampleRow(row, from) ==
    IF from >= Len(row) THEN <<>>
    ELSE PySlice(row, from, from + 3) \o SampleRow(row, from + 6)

\* np.array(result) of line 84: a list of no rows is a 1-D array of length 0
ArrayOfRows(rows) ==
    IF Len(rows) = 0 THEN Array1(<<>>) ELSE Array2(rows, Len(rows[1]))

\* SampleEveryThree2d without the test of line 70
SampleEveryThree2d_NoWidthCheck(arr) ==
    IF arr.shape[2] = CanonicalWidth THEN Returns(arr)
    ELSE Returns(ArrayOfRows([r \in 1..Len(arr.rows) |-> SampleRow(arr.rows[r], 0)]))

\* SampleEveryThree2d without the test for 72 columns
SampleEveryThree2d_NoPassThrough(arr) ==
    IF arr.shape[2] % 3 # 0 THEN Raises("ValueError")
    ELSE Returns(ArrayOfRows([r \in 1..Len(arr.rows) |-> SampleRow(arr.rows[r], 0)]))

SampleEveryThree2d(arr) ==
    IF arr.shape[2] % 3 # 0 THEN Raises("ValueError")
    ELSE IF arr.shape[2] = CanonicalWidth THEN Returns(arr)
    ELSE Returns(ArrayOfRows([r \in 1..Len(arr.rows) |-> SampleRow(arr.rows[r], 0)]))

\* data[from:, lo:hi] of a 2-D array, hi = -1 standing for no upper end
SliceRowsColumns(data, from, lo, hi) ==
    LET w == data.shape[2]
        h == IF hi < 0 THEN w ELSE Min(hi, w)
        l == Min(lo, w)
        rows == PySlice(data.rows, from, Len(data.rows))
    IN Array2([r \in 1..Len(rows) |-> PySlice(rows[r], l, h)], h - l)

\* np.concatenate([a, b], axis=1) of arrays with as many rows
ConcatenateColumns(a, b) ==
    IF a.ndim # b.ndim THEN Raises("ValueError")
    ELSE Returns(Array2([r \in 1..Len(a.rows) |-> a.rows[r] \o b.rows[r]],
                        a.shape[2] + b.shape[2]))

\* lines 164-170: data_new of a clip as read, or the exception
CanonicalizeClip(data) ==
    IF data.ndim # 2 THEN Raises("IndexError")
    ELSE LET pos == SliceRowsColumns(data, 1, 0, 3)
             rot_raw == SliceRowsColumns(data, 1, 3, 0 - 1)
             rot_euler == SampleEveryThree2d(rot_raw)
         IN IF ~rot_euler.ok THEN rot_euler
            ELSE ConcatenateColumns(pos, rot_euler.value)

\* the retargeted clips: a clip of two columns; 3 columns and a rotation block
\* that is empty, of 3, 4, 6, 6 + 3 and 6 + 6 columns, of 72, of 141 (24 joints
\* of 6 channels, the root's first three split off) and of 144
RetargetedWidths == {2, 3, 6, 7, 9, 12, 15, 75, 144, 147}
RetargetedFrame(r, width) == [k \in 1..width |-> 1000 * r + k]
RetargetedReads ==
    {ReadRaises}
    \cup { ReadResult(Array2([r \in 1..T |-> RetargetedFrame(r, w)], w), 30, ClipHeaderA) :
             T \in 0..(MaxFrames + 1), w \in RetargetedWidths }
    \cup { ReadResult(Array1(RetargetedFrame(1, w)), 30, ClipHeaderA) : w \in {75, 147} }

\* the header of smpl-T.bvh
SmplHeader == HeaderOf(<<"pelvis", "left_hip">>, <<Channels6, Channels3>>, 1)

(***************************************************************************)
(* smpl_bvh_to_smpl_npz.py: the joint orders and the body of                *)
(* build_smpl_npz's loop.  A translation is a fraction num / den in lowest  *)
(* terms, the scale factor too; np.deg2rad and the quat conversions are     *)
(* kept as terms over their arguments.                                      *)
(***************************************************************************)
SMPL_JOINT_NAMES ==
    << "pelvis", "left_hip", "right_hip", "spine1", "left_knee", "right_knee",
       "spine2", "left_ankle", "right_ankle", "spine3", "left_foot", "right_foot",
       "neck", "left_collar", "right_collar", "head", "left_shoulder",
       "right_shoulder", "left_elbow", "right_elbow", "left_wrist", "right_wrist",
       "left_hand", "right_hand" >>

BVH_JOINT_NAMES ==
    << "pelvis", "left_hip", "left_knee", "left_ankle", "left_foot", "right_hip",
       "right_knee", "right_ankle", "right_foot", "spine1", "spine2", "spine3",
       "neck", "head", "left_collar", "left_shoulder", "left_elbow", "left_wrist",
       "left_hand", "right_collar", "right_shoulder", "right_elbow", "right_wrist",
       "right_hand" >>

Array3(rows, n, m) == [ndim |-> 3, shape |-> <<Len(rows), n, m>>, rows |-> rows]

Abs(x) == IF x < 0 THEN 0 - x ELSE x
RECURSIVE GCD(_, _)
GCD(a, b) == IF b = 0 THEN a ELSE GCD(b, a % b)
Fraction(n, d) == LET g == GCD(Abs(n), d) IN [num |-> n \div g, den |-> d \div g]
Float(x) == Fraction(x, 1)
Times(a, b) == Fraction(a.num * b.num, a.den * b.den)

\* lines 200-202
ScaledTranslation(pos, scale) ==
    Array2([r \in 1..Len(pos.rows) |->
              [k \in 1..Len(pos.rows[r]) |->
                 IF scale # Float(1) THEN Times(Float(pos.rows[r][k]), scale)
                 ELSE Float(pos.rows[r][k])]],
           pos.shape[2])

\* line 205: rotation.reshape([T, int(W / 3), 3])
Reshape3(arr) ==
    LET T == arr.shape[1]
        W == arr.shape[2]
        J == W \div 3
    IN IF T * W # T * J * 3 THEN Raises("ValueError")
       ELSE Returns(Array3([r \in 1..T |->
                              [j \in 1..J |-> SubSeq(arr.rows[r], 3 * j - 2, 3 * j)]],
                           J, 3))

\* line 206
Deg2Rad(x) == [deg2rad |-> x]
Deg2RadAll(a) ==
    Array3([r \in 1..Len(a.rows) |->
              [j \in 1..a.shape[2] |-> [c \in 1..3 |-> Deg2Rad(a.rows[r][j][c])]]],
           a.shape[2], 3)

\* a triple of np.zeros_like (line 209): the angle 0
ZeroTriple == <<Deg2Rad(0), Deg2Rad(0), Deg2Rad(0)>>

\* the first slot of lines 210-212 that raises, 0 if none does
FirstFailingSlot(J, target_names, source_names) ==
    LET fails(i) == \/ ~InSeq(source_names, target_names[i])
                    \/ i > J
                    \/ PyIndex(source_names, target_names[i]) >= J
        failing == {i \in 1..Len(target_names) : fails(i)}
    IN IF failing = {} THEN 0
       ELSE CHOOSE i \in failing : \A m \in failing : i <= m

\* Reorder filling slot i from source slot i
Reorder_ByPosition(rotation, target_names, source_names) ==
    LET J == rotation.shape[2]
        f == FirstFailingSlot(J, target_names, source_names)
    IN IF f # 0
       THEN (IF InSeq(source_names, target_names[f]) THEN Raises("IndexError")
             ELSE Raises("ValueError"))
       ELSE Returns(Array3([r \in 1..Len(rotation.rows) |->
                              [i \in 1..J |->
                                 IF i <= Len(target_names)
                                 THEN rotation.rows[r][i]
                                 ELSE ZeroTriple]],
                           J, 3))

\* lines 209-212: rotation_s, or the exception of the first failing slot
Reorder(rotation, target_names, source_names) ==
    LET J == rotation.shape[2]
        f == FirstFailingSlot(J, target_names, source_names)
    IN IF f # 0
       THEN (IF InSeq(source_names, target_names[f]) THEN Raises("IndexError")
             ELSE Raises("ValueError"))
       ELSE Returns(Array3([r \in 1..Len(rotation.rows) |->
                              [i \in 1..J |->
                                 IF i <= Len(target_names)
                                 THEN rotation.rows[r][PyIndex(source_names, target_names[i]) + 1]
                                 ELSE ZeroTriple]],
                           J, 3))

\* quat.from_euler and quat.to_axis_angle (lines 214-216) of one joint's triple
FromEuler(euler, order) == [from_euler |-> euler, order |-> order]
ToAxisAngle(q) == [to_axis_angle |-> q]
AxisAngle(rot) ==
    Array3([r \in 1..Len(rot.rows) |->
              [j \in 1..rot.shape[2] |-> ToAxisAngle(FromEuler(rot.rows[r][j], "zxy"))]],
           rot.shape[2], 3)

\* lines 200-216: the arrays to save for a clip as read, or the exception
ConvertClip(data, scale, target_names, source_names) ==
    IF data.ndim # 2 THEN Raises("IndexError")
    ELSE LET pos == ScaledTranslation(SliceRowsColumns(data, 0, 0, 3), scale)
             rotation == Reshape3(SliceRowsColumns(data, 0, 3, 0 - 1))
         IN IF ~rotation.ok THEN rotation
            ELSE LET rot_s == Reorder(Deg2RadAll(rotation.value),
                                      target_names, source_names)
                 IN IF ~rot_s.ok THEN rot_s
                    ELSE Returns([trans |-> pos, rotation_s |-> rot_s.value,
                                  poses |-> AxisAngle(rot_s.value)])

\* the canonical clips: 24 triples after the translation, 25, 24 and one
\* column more, 2, none, and a clip of two columns
CanonicalWidths == {2, 3, 9, 75, 76, 78}
\* "distinct" gives every column of every frame its own value, "repeated"
\* gives several joints the same triple
CanonicalFrame(pattern, r, width) ==
    [k \in 1..width |->
       IF pattern = "distinct" THEN 1000 * r + k
       ELSE IF k <= 3 THEN 100 * k ELSE (((k - 4) \div 3) % 2) + r]
CanonicalReads ==
    {ReadRaises}
    \cup { ReadResult(Array2([r \in 1..T |-> CanonicalFrame(p, r, w)], w), 30, SmplHeader) :
             T \in 0..MaxFrames, w \in CanonicalWidths, p \in {"distinct", "repeated"} }
    \cup { ReadResult(Array1(CanonicalFrame("distinct", 1, 75)), 30, SmplHeader) }

\* trans_scale: 1.0, 0.01 (step3_finalize_npz.py) and 2.0
TransScales == {Float(1), Fraction(1, 100), Float(2)}

(***************************************************************************)
(* The states in which a component is not running.                         *)
(***************************************************************************)
IdleParse == header_lines = <<>> /\ joint_to_layout = None
IdleTpose ==
    /\ work_dir = None /\ bvh_paths = <<>>
    /\ tpose_ref_layout = None /\ tpose_ref_frame0 = None
    /\ tpose_ref_path_used = None /\ force_zero_rotation_joints = {}
    /\ ref_read = None
    /\ tp_pc = "idle" /\ tp_i = 0 /\ tp_read = None /\ tp_out = None
    /\ tp_written = <<>>
IdleCanon ==
    /\ cn_files = <<>> /\ smpl_header = None /\ cn_pc = "idle" /\ cn_i = 0
    /\ cn_read = None /\ cn_out = None /\ cn_written = <<>>
IdleNpz ==
    /\ smpl_joint_names = SMPL_JOINT_NAMES /\ bvh_joint_names = BVH_JOINT_NAMES
    /\ nz_files = <<>> /\ trans_scale = None /\ nz_pc = "idle" /\ nz_i = 0
    /\ nz_read = None /\ rotation_s = None /\ nz_out = None /\ nz_written = <<>>
\* one function is called on its own: no files are kept between calls
IdleRun == stage = "idle" /\ disk = {}

(***************************************************************************)
(* The parser as a pure function: a header is drawn, Parse applies it.     *)
(***************************************************************************)
InitParse ==
    /\ header_lines \in Headers /\ joint_to_layout = None
    /\ IdleTpose /\ IdleCanon /\ IdleNpz /\ IdleRun

Parse ==
    /\ joint_to_layout = None
    /\ joint_to_layout' = ParseJointChannelsFromHeader(header_lines)
    /\ UNCHANGED <<header_lines, tposeVars, canonVars, npzVars, runVars>>

NextParse == Parse
SpecParse == InitParse /\ [][NextParse]_vars

(***************************************************************************)
(* prepend_tpose_frame as a state machine: the reference is resolved, then *)
(* the clips are read, given their T-pose frame and written one by one; an *)
(* exception in the loop ends the call.                                    *)
(***************************************************************************)
ClipPaths(n) == [k \in 1..n |-> [dir |-> "bvh", base |-> k]]

InitTpose ==
    /\ work_dir \in [listable : BOOLEAN, entries : SUBSET FileNameChoices]
    /\ bvh_paths \in {ClipPaths(n) : n \in 0..MaxClips}
    /\ tpose_ref_layout = None /\ tpose_ref_frame0 = None
    /\ tpose_ref_path_used = None /\ force_zero_rotation_joints = {}
    /\ ref_read = None
    /\ tp_pc = "start" /\ tp_i = 0 /\ tp_read = None /\ tp_out = None
    /\ tp_written = <<>>
    /\ IdleParse /\ IdleCanon /\ IdleNpz /\ IdleRun

\* lines 146-183
Tpose_Resolve ==
    /\ tp_pc = "start"
    /\ \E rd \in (IF ReferencePath(work_dir) = None THEN {None} ELSE RefReads) :
         LET ref == ResolveReference(work_dir, rd)
         IN /\ ref_read' = rd
            /\ tpose_ref_layout' = ref.tpose_ref_layout
            /\ tpose_ref_frame0' = ref.tpose_ref_frame0
            /\ tpose_ref_path_used' = ref.tpose_ref_path_used
            /\ force_zero_rotation_joints' = ref.force_zero_rotation_joints
    /\ tp_pc' = "loop"
    /\ UNCHANGED <<work_dir, bvh_paths, tp_i, tp_read, tp_out, tp_written>>
    /\ UNCHANGED <<parseVars, canonVars, npzVars, runVars>>

\* line 186 raising: the exception leaves the function
Tpose_ReadRaises ==
    /\ tp_pc = "loop" /\ tp_i < Len(bvh_paths)
    /\ tp_read' = ReadRaises
    /\ tp_pc' = "raised"
    /\ UNCHANGED <<work_dir, bvh_paths, tpose_ref_layout, tpose_ref_frame0,
                   tpose_ref_path_used, force_zero_rotation_joints, ref_read,
                   tp_i, tp_out, tp_written>>
    /\ UNCHANGED <<parseVars, canonVars, npzVars, runVars>>

\* lines 188-189: ValueError for a matrix that is not 2-D or has no frame
Tpose_ShapeError ==
    /\ tp_pc = "loop" /\ tp_i < Len(bvh_paths)
    /\ \E rd \in ClipReads :
         /\ rd.ok /\ UnexpectedShape(rd.data)
         /\ tp_read' = rd
    /\ tp_pc' = "raised"
    /\ UNCHANGED <<work_dir, bvh_paths, tpose_ref_layout, tpose_ref_frame0,
                   tpose_ref_path_used, force_zero_rotation_joints, ref_read,
                   tp_i, tp_out, tp_written>>
    /\ UNCHANGED <<parseVars, canonVars, npzVars, runVars>>

\* Tpose_Prepend resolving the reference anew for the clip
Tpose_Prepend_ReResolving ==
    /\ tp_pc = "loop" /\ tp_i < Len(bvh_paths)
    /\ \E rd \in ClipReads :
         \E rr \in (IF ReferencePath(work_dir) = None THEN {None} ELSE RefReads) :
           LET ref == ResolveReference(work_dir, rr)
           IN /\ rd.ok /\ ~UnexpectedShape(rd.data)
              /\ tp_read' = rd
              /\ ref_read' = rr
              /\ tpose_ref_layout' = ref.tpose_ref_layout
              /\ tpose_ref_frame0' = ref.tpose_ref_frame0
              /\ tpose_ref_path_used' = ref.tpose_ref_path_used
              /\ force_zero_rotation_joints' = ref.force_zero_rotation_joints
              /\ tp_out' = Output(PrependTposeFrame(rd.data, rd.header, ref.tpose_ref_layout,
                                     ref.tpose_ref_frame0, ref.force_zero_rotation_joints),
                                  rd.fs, OutName("bvhForC", bvh_paths[tp_i + 1]), rd.header)
    /\ tp_written' = Append(tp_written, OutName("bvhForC", bvh_paths[tp_i + 1]))
    /\ tp_i' = tp_i + 1
    /\ UNCHANGED <<work_dir, bvh_paths, tp_pc>>
    /\ UNCHANGED <<parseVars, canonVars, npzVars, runVars>>

\* lines 186-237 for one clip
Tpose_Prepend ==
    /\ tp_pc = "loop" /\ tp_i < Len(bvh_paths)
    /\ \E rd \in ClipReads :
         /\ rd.ok /\ ~UnexpectedShape(rd.data)
         /\ tp_read' = rd
         /\ tp_out' = Output(PrependTposeFrame(rd.data, rd.header, tpose_ref_layout,
                                               tpose_ref_frame0, force_zero_rotation_joints),
                             rd.fs, OutName("bvhForC", bvh_paths[tp_i + 1]), rd.header)
    /\ tp_written' = Append(tp_written, OutName("bvhForC", bvh_paths[tp_i + 1]))
    /\ tp_i' = tp_i + 1
    /\ UNCHANGED <<work_dir, bvh_paths, tpose_ref_layout, tpose_ref_frame0,
                   tpose_ref_path_used, force_zero_rotation_joints, ref_read, tp_pc>>
    /\ UNCHANGED <<parseVars, canonVars, npzVars, runVars>>

\* the loop is over
Tpose_Return ==
    /\ tp_pc = "loop" /\ tp_i = Len(bvh_paths)
    /\ tp_pc' = "done"
    /\ UNCHANGED <<work_dir, bvh_paths, tpose_ref_layout, tpose_ref_frame0,
                   tpose_ref_path_used, force_zero_rotation_joints, ref_read,
                   tp_i, tp_read, tp_out, tp_written>>
    /\ UNCHANGED <<parseVars, canonVars, npzVars, runVars>>

Next ==
    \/ Tpose_Resolve
    \/ Tpose_ReadRaises
    \/ Tpose_ShapeError
    \/ Tpose_Prepend
    \/ Tpose_Return
Spec == InitTpose /\ [][Next]_vars

(***************************************************************************)
(* prepend_tpose_frame while the work directory changes under it: the file *)
(* the reference was read from is removed during the loop.                 *)
(***************************************************************************)
Env_ReferenceFileGone ==
    /\ tp_pc = "loop"
    /\ tpose_ref_path_used # None
    /\ tpose_ref_path_used \in work_dir.entries
    /\ work_dir' = [work_dir EXCEPT !.entries = @ \ {tpose_ref_path_used}]
    /\ UNCHANGED <<bvh_paths, tpose_ref_layout, tpose_ref_frame0,
                   tpose_ref_path_used, force_zero_rotation_joints, ref_read,
                   tp_pc, tp_i, tp_read, tp_out, tp_written>>
    /\ UNCHANGED <<parseVars, canonVars, npzVars, runVars>>

NextTposeEnv ==
    \/ Tpose_Resolve
    \/ Tpose_ReadRaises
    \/ Tpose_ShapeError
    \/ Tpose_Prepend
    \/ Tpose_Return
    \/ Env_ReferenceFileGone
SpecTposeEnv == InitTpose /\ [][NextTposeEnv]_vars

(***************************************************************************)
(* build_smpl_bvh as a state machine: the SMPL header is read, then the    *)
(* retargeted clips are canonicalized and written one by one.              *)
(***************************************************************************)
InitCanon ==
    /\ cn_files \in {ClipPaths(n) : n \in 0..MaxClips}
    /\ smpl_header = None /\ cn_pc = "start" /\ cn_i = 0
    /\ cn_read = None /\ cn_out = None /\ cn_written = <<>>
    /\ IdleParse /\ IdleTpose /\ IdleNpz /\ IdleRun

\* lines 150-156
Canon_Start ==
    /\ cn_pc = "start"
    /\ \E rd \in {ReadRaises, ReadResult(Array2(<<>>, 75), 30, SmplHeader)} :
         IF rd.ok THEN smpl_header' = rd.header /\ cn_pc' = "loop"
         ELSE smpl_header' = None /\ cn_pc' = "raised"
    /\ UNCHANGED <<cn_files, cn_i, cn_read, cn_out, cn_written>>
    /\ UNCHANGED <<parseVars, tposeVars, npzVars, runVars>>

\* line 161 raising
Canon_ReadRaises ==
    /\ cn_pc = "loop" /\ cn_i < Len(cn_files)
    /\ cn_read' = ReadRaises
    /\ cn_pc' = "raised"
    /\ UNCHANGED <<cn_files, smpl_header, cn_i, cn_out, cn_written>>
    /\ UNCHANGED <<parseVars, tposeVars, npzVars, runVars>>

\* lines 164-170 raising: nothing is written for the clip
Canon_Raises ==
    /\ cn_pc = "loop" /\ cn_i < Len(cn_files)
    /\ \E rd \in RetargetedReads :
         /\ rd.ok /\ ~CanonicalizeClip(rd.data).ok
         /\ cn_read' = rd
    /\ cn_pc' = "raised"
    /\ UNCHANGED <<cn_files, smpl_header, cn_i, cn_out, cn_written>>
    /\ UNCHANGED <<parseVars, tposeVars, npzVars, runVars>>

\* lines 159-172 for one clip
Canon_Write ==
    /\ cn_pc = "loop" /\ cn_i < Len(cn_files)
    /\ \E rd \in RetargetedReads :
         /\ rd.ok /\ CanonicalizeClip(rd.data).ok
         /\ cn_read' = rd
         /\ cn_out' = Output(CanonicalizeClip(rd.data).value, rd.fs,
                             OutName("bvhSMPL", cn_files[cn_i + 1]), smpl_header)
    /\ cn_written' = Append(cn_written, OutName("bvhSMPL", cn_files[cn_i + 1]))
    /\ cn_i' = cn_i + 1
    /\ UNCHANGED <<cn_files, smpl_header, cn_pc>>
    /\ UNCHANGED <<parseVars, tposeVars, npzVars, runVars>>

Canon_Return ==
    /\ cn_pc = "loop" /\ cn_i = Len(cn_files)
    /\ cn_pc' = "done"
    /\ UNCHANGED <<cn_files, smpl_header, cn_i, cn_read, cn_out, cn_written>>
    /\ UNCHANGED <<parseVars, tposeVars, npzVars, runVars>>

NextCanon ==
    \/ Canon_Start
    \/ Canon_ReadRaises
    \/ Canon_Raises
    \/ Canon_Write
    \/ Canon_Return
SpecCanon == InitCanon /\ [][NextCanon]_vars

(***************************************************************************)
(* build_smpl_npz as a state machine: the canonical clips are converted    *)
(* and saved one by one.                                                   *)
(***************************************************************************)
NpzName(src_path) == [dir |-> "npz", base |-> src_path.base, ext |-> ".npz"]

InitNpz ==
    /\ smpl_joint_names = SMPL_JOINT_NAMES /\ bvh_joint_names = BVH_JOINT_NAMES
    /\ nz_files \in {ClipPaths(n) : n \in 0..MaxClips}
    /\ trans_scale \in TransScales
    /\ nz_pc = "loop" /\ nz_i = 0
    /\ nz_read = None /\ rotation_s = None /\ nz_out = None /\ nz_written = <<>>
    /\ IdleParse /\ IdleTpose /\ IdleCanon /\ IdleRun

\* line 198 raising
Npz_ReadRaises ==
    /\ nz_pc = "loop" /\ nz_i < Len(nz_files)
    /\ nz_read' = ReadRaises
    /\ nz_pc' = "raised"
    /\ UNCHANGED <<smpl_joint_names, bvh_joint_names, nz_files, trans_scale, nz_i, rotation_s, nz_out, nz_written>>
    /\ UNCHANGED <<parseVars, tposeVars, canonVars, runVars>>

\* lines 200-212 raising: nothing is saved for the clip
Npz_Raises ==
    /\ nz_pc = "loop" /\ nz_i < Len(nz_files)
    /\ \E rd \in CanonicalReads :
         /\ rd.ok /\ ~ConvertClip(rd.data, trans_scale, smpl_joint_names, bvh_joint_names).ok
         /\ nz_read' = rd
    /\ nz_pc' = "raised"
    /\ UNCHANGED <<smpl_joint_names, bvh_joint_names, nz_files, trans_scale, nz_i, rotation_s, nz_out, nz_written>>
    /\ UNCHANGED <<parseVars, tposeVars, canonVars, runVars>>

\* lines 195-219 for one clip
Npz_Save ==
    /\ nz_pc = "loop" /\ nz_i < Len(nz_files)
    /\ \E rd \in CanonicalReads :
         /\ rd.ok /\ ConvertClip(rd.data, trans_scale, smpl_joint_names, bvh_joint_names).ok
         /\ nz_read' = rd
         /\ LET arrays == ConvertClip(rd.data, trans_scale, smpl_joint_names, bvh_joint_names).value
            IN /\ rotation_s' = arrays.rotation_s
               /\ nz_out' = [out_path |-> NpzName(nz_files[nz_i + 1]),
                             trans |-> arrays.trans, poses |-> arrays.poses]
    /\ nz_written' = Append(nz_written, NpzName(nz_files[nz_i + 1]))
    /\ nz_i' = nz_i + 1
    /\ UNCHANGED <<smpl_joint_names, bvh_joint_names, nz_files, trans_scale, nz_pc>>
    /\ UNCHANGED <<parseVars, tposeVars, canonVars, runVars>>

Npz_Return ==
    /\ nz_pc = "loop" /\ nz_i = Len(nz_files)
    /\ nz_pc' = "done"
    /\ UNCHANGED <<smpl_joint_names, bvh_joint_names, nz_files, trans_scale, nz_i, nz_read, rotation_s, nz_out, nz_written>>
    /\ UNCHANGED <<parseVars, tposeVars, canonVars, runVars>>

NextNpz ==
    \/ Npz_ReadRaises
    \/ Npz_Raises
    \/ Npz_Save
    \/ Npz_Return
SpecNpz == InitNpz /\ [][NextNpz]_vars

(***************************************************************************)
(* build_smpl_npz under other values of the two module-level lists: the    *)
(* lists as the module has them, and source lists from which the name of   *)
(* the first or of the last target joint is gone.                          *)
(***************************************************************************)
Renamed(names, old, new) ==
    [k \in 1..Len(names) |-> IF names[k] = old THEN new ELSE names[k]]
JointListChoices ==
    { <<SMPL_JOINT_NAMES, BVH_JOINT_NAMES>>,
      <<SMPL_JOINT_NAMES, Renamed(BVH_JOINT_NAMES, "pelvis", "Hips")>>,
      <<SMPL_JOINT_NAMES, Renamed(BVH_JOINT_NAMES, "right_hand", "RightHand")>> }

InitNpzLists ==
    /\ \E lists \in JointListChoices :
         smpl_joint_names = lists[1] /\ bvh_joint_names = lists[2]
    /\ nz_files \in {ClipPaths(n) : n \in 0..MaxClips}
    /\ trans_scale \in TransScales
    /\ nz_pc = "loop" /\ nz_i = 0
    /\ nz_read = None /\ rotation_s = None /\ nz_out = None /\ nz_written = <<>>
    /\ IdleParse /\ IdleTpose /\ IdleCanon /\ IdleRun
SpecNpzLists == InitNpzLists /\ [][NextNpz]_vars

(***************************************************************************)
(* The three steps run one after the other on one clip, the files kept     *)
(* between them: prepend_tpose_frame on the clip with no reference in the  *)
(* work directory, build_smpl_bvh on the file it wrote (no retargeting in  *)
(* between), build_smpl_npz on the file that wrote.                        *)
(***************************************************************************)
File(name, data, fs, header) == [name |-> name, data |-> data, fs |-> fs, header |-> header]
FileAt(name) == CHOOSE f \in disk : f.name = name
\* sorted listing of the .bvh files of a directory
FilesIn(dir) ==
    LET found == {f.name : f \in {g \in disk : g.name.dir = dir}}
    IN IF found = {} THEN <<>> ELSE <<CHOOSE n \in found : TRUE>>

\* what bvh.bvhreader gives for a file: its matrix, or, for a file of one
\* frame, possibly the frame as a 1-D array
ReadBack(f) ==
    {ReadResult(f.data, f.fs, f.header)}
    \cup (IF f.data.shape[1] = 1
          THEN {ReadResult(Array1(f.data.rows[1]), f.fs, f.header)} ELSE {})

\* pelvis with 6 channels, left_hip with 3
TwoJointHeader == HeaderOf(<<"pelvis", "left_hip">>, <<Channels6, Channels3>>, 1)
TwoJointFrame(height, pelvis_rot, hip_rot, r) ==
    LET first == <<0, height, 0>> \o pelvis_rot \o hip_rot
    IN [k \in 1..Len(first) |-> IF r = 1 THEN first[k] ELSE first[k] + r - 1]
TwoJointClips ==
    { [data |-> Array2([r \in 1..T |-> TwoJointFrame(h, pr, hr, r)], 9),
       fs |-> 30, header |-> TwoJointHeader] :
        T \in 1..MaxFrames, h \in {100, 250},
        pr \in {<<0, 0, 0>>, <<5, 6, 7>>}, hr \in {<<10, 20, 30>>, <<0, 0, 0>>} }
SourceClips == TwoJointClips

InitRun ==
    /\ stage = "prepend"
    /\ bvh_paths = ClipPaths(1)
    /\ \E clip \in SourceClips :
         disk = {File(bvh_paths[1], clip.data, clip.fs, clip.header)}
    /\ work_dir = [listable |-> TRUE, entries |-> {}]
    /\ tpose_ref_layout = None /\ tpose_ref_frame0 = None
    /\ tpose_ref_path_used = None /\ force_zero_rotation_joints = {}
    /\ ref_read = None
    /\ tp_pc = "start" /\ tp_i = 0 /\ tp_read = None /\ tp_out = None
    /\ tp_written = <<>>
    /\ IdleParse /\ IdleCanon
    /\ smpl_joint_names = SMPL_JOINT_NAMES /\ bvh_joint_names = BVH_JOINT_NAMES
    /\ nz_files = <<>> /\ trans_scale \in TransScales /\ nz_pc = "idle" /\ nz_i = 0
    /\ nz_read = None /\ rotation_s = None /\ nz_out = None /\ nz_written = <<>>

\* prepend_tpose_frame(bvh_paths, bvhForC), lines 129-237
Run_Prepend ==
    /\ stage = "prepend"
    /\ LET ref == ResolveReference(work_dir, None)
           out_name == OutName("bvhForC", bvh_paths[1])
       IN /\ tpose_ref_layout' = ref.tpose_ref_layout
          /\ tpose_ref_frame0' = ref.tpose_ref_frame0
          /\ tpose_ref_path_used' = ref.tpose_ref_path_used
          /\ force_zero_rotation_joints' = ref.force_zero_rotation_joints
          /\ \E rd \in ReadBack(FileAt(bvh_paths[1])) :
               /\ tp_read' = rd
               /\ IF UnexpectedShape(rd.data)
                  THEN /\ tp_pc' = "raised" /\ stage' = "end"
                       /\ UNCHANGED <<tp_i, tp_out, tp_written, disk>>
                  ELSE LET data_new == PrependTposeFrame(rd.data, rd.header,
                                           ref.tpose_ref_layout, ref.tpose_ref_frame0,
                                           ref.force_zero_rotation_joints)
                       IN /\ tp_out' = Output(data_new, rd.fs, out_name, rd.header)
                          /\ tp_written' = <<out_name>>
                          /\ tp_i' = 1
                          /\ tp_pc' = "done" /\ stage' = "canonicalize"
                          /\ disk' = disk \cup {File(out_name, data_new, rd.fs, rd.header)}
    /\ UNCHANGED <<work_dir, bvh_paths, ref_read>>
    /\ UNCHANGED <<parseVars, canonVars, npzVars>>

\* build_smpl_bvh(root, smpl_t_bvh_path, bvhForC, bvhSMPL), lines 143-172
Run_Canonicalize ==
    /\ stage = "canonicalize"
    /\ smpl_header' = SmplHeader
    /\ cn_files' = FilesIn("bvhForC")
    /\ LET item == cn_files'[1]
           out_name == OutName("bvhSMPL", item)
       IN \E rd \in ReadBack(FileAt(item)) :
            /\ cn_read' = rd
            /\ IF ~CanonicalizeClip(rd.data).ok
               THEN /\ cn_pc' = "raised" /\ stage' = "end"
                    /\ UNCHANGED <<cn_i, cn_out, cn_written, disk>>
               ELSE LET data_new == CanonicalizeClip(rd.data).value
                    IN /\ cn_out' = Output(data_new, rd.fs, out_name, SmplHeader)
                       /\ cn_written' = <<out_name>>
                       /\ cn_i' = 1
                       /\ cn_pc' = "done" /\ stage' = "convert"
                       /\ disk' = disk \cup {File(out_name, data_new, rd.fs, SmplHeader)}
    /\ UNCHANGED <<parseVars, tposeVars, npzVars>>

\* build_smpl_npz(root, bvhSMPL, npz, trans_scale), lines 175-219
Run_Convert ==
    /\ stage = "convert"
    /\ nz_files' = FilesIn("bvhSMPL")
    /\ LET item == nz_files'[1]
       IN \E rd \in ReadBack(FileAt(item)) :
            LET arrays == ConvertClip(rd.data, trans_scale, smpl_joint_names, bvh_joint_names)
            IN /\ nz_read' = rd
               /\ IF ~arrays.ok
                  THEN /\ nz_pc' = "raised"
                       /\ UNCHANGED <<nz_i, rotation_s, nz_out, nz_written>>
                  ELSE /\ rotation_s' = arrays.value.rotation_s
                       /\ nz_out' = [out_path |-> NpzName(item),
                                     trans |-> arrays.value.trans,
                                     poses |-> arrays.value.poses]
                       /\ nz_written' = <<NpzName(item)>>
                       /\ nz_i' = 1
                       /\ nz_pc' = "done"
    /\ stage' = "end"
    /\ UNCHANGED <<smpl_joint_names, bvh_joint_names, trans_scale, disk>>
    /\ UNCHANGED <<parseVars, tposeVars, canonVars>>

NextRun ==
    \/ Run_Prepend
    \/ Run_Canonicalize
    \/ Run_Convert
SpecRun == InitRun /\ [][NextRun]_vars

(***************************************************************************)
(* What the claims about prepend_tpose_frame speak of.                     *)
(***************************************************************************)
\* the clip read last has been given its T-pose frame and written
JustPrepended == tp_pc \in {"loop", "done"} /\ tp_i >= 1
\* the condition of line 207
ReferenceAvailable == tpose_ref_layout # None /\ tpose_ref_frame0 # None
\* the columns, within a frame of width d, of the channels a layout tags as
\* rotations, and of those it tags as translations
RotationColumns(layout, d) ==
    { c \in 0..(d - 1) :
        \E j \in DOMAIN layout.val : \E k \in 1..Len(layout.val[j].channels) :
            c = layout.val[j].start + k - 1 /\ EndsWithRotation(layout.val[j].channels[k]) }
TranslationColumns(layout, d) ==
    { c \in 0..(d - 1) :
        \E j \in DOMAIN layout.val : \E k \in 1..Len(layout.val[j].channels) :
            c = layout.val[j].start + k - 1 /\ ~EndsWithRotation(layout.val[j].channels[k]) }
ClipLayout == ParseJointChannelsFromHeader(tp_read.header)
FirstFrame == tp_read.data.rows[1]
SyntheticFrame == tp_out.data.rows[1]

(***************************************************************************)
(* C1: a clip of T >= 1 frames is written out with T + 1 frames: frame 0   *)
(* is the synthetic pose and output frame i + 1 is input frame i, column   *)
(* for column and in order; the input frames are not altered.              *)
(***************************************************************************)
C1_OriginalFramesFollow ==
    JustPrepended =>
        LET T == tp_read.data.shape[1]
            out == tp_out.data
        IN /\ T >= 1
           /\ out.ndim = 2 /\ out.shape = <<T + 1, tp_read.data.shape[2]>>
           /\ Len(out.rows) = T + 1
           /\ \A i \in 1..T : out.rows[i + 1] = tp_read.data.rows[i]
           /\ Len(out.rows[1]) = Len(FirstFrame)
           /\ \A c \in 1..Len(FirstFrame) :
                \/ out.rows[1][c] = FirstFrame[c]
                \/ c - 1 \in RotationColumns(ClipLayout, Len(FirstFrame))

\* a clip of two frames written with a synthetic frame that differs from its
\* first frame, which follows unchanged
C1_Witness ==
    /\ JustPrepended /\ tp_read.data.shape[1] = 2
    /\ tp_out.data.rows[1] # tp_out.data.rows[2]
    /\ tp_out.data.rows[2] = ClipFrame("distinct", 1, 12)
    /\ tp_out.data.rows[3] = ClipFrame("distinct", 2, 12)

(***************************************************************************)
(* C2: with no reference available the synthetic frame is zero in every    *)
(* rotation column of the layout; with or without a reference it has the   *)
(* first frame's value in every translation column.                        *)
(***************************************************************************)
C2_ZeroRotationsKeepTranslations ==
    JustPrepended =>
        LET d == Len(FirstFrame)
        IN /\ \A c \in TranslationColumns(ClipLayout, d) :
                SyntheticFrame[c + 1] = FirstFrame[c + 1]
           /\ ~ReferenceAvailable =>
                \A c \in RotationColumns(ClipLayout, d) : SyntheticFrame[c + 1] = 0

\* no reference; a first frame with nonzero rotations comes out with the
\* rotations zero and the root translation kept
C2_Witness ==
    /\ JustPrepended /\ ~ReferenceAvailable
    /\ tp_read.header = ClipHeaderA
    /\ FirstFrame = ClipFrame("distinct", 1, 12)
    /\ SyntheticFrame = <<101, 102, 103, 0, 0, 0, 0, 0, 0, 0, 0, 0>>

(***************************************************************************)
(* C3: with a reference available, a rotation channel of a joint that is   *)
(* in both layouts and not forced to zero holds the reference frame's      *)
(* value of the channel of the same joint and channel name, each found     *)
(* through its own layout's start column; the joints forced to zero        *)
(* (UpperArm_L and UpperArm_R for a reference file tagged bandai) and the  *)
(* joints the reference lacks have their rotation channels at zero.        *)
(***************************************************************************)
\* the reference column of channel ch of joint j, or -1 when the reference
\* joint has no such channel within its frame
ReferenceColumn(j, ch) ==
    LET src == tpose_ref_layout.val[j]
        ms == { m \in 1..Len(src.channels) :
                  src.channels[m] = ch /\ \A e \in 1..(m - 1) : src.channels[e] # ch }
    IN IF ms = {} THEN 0 - 1
       ELSE LET c == src.start + (CHOOSE m \in ms : TRUE) - 1
            IN IF c < tpose_ref_frame0.shape[1] THEN c ELSE 0 - 1

C3_ReferenceRotationsByName ==
    (JustPrepended /\ ReferenceAvailable) =>
        /\ force_zero_rotation_joints =
             IF tpose_ref_path_used = TPoseBandai THEN {"UpperArm_L", "UpperArm_R"} ELSE {}
        /\ \A j \in DOMAIN ClipLayout.val :
             \A k \in 1..Len(ClipLayout.val[j].channels) :
                LET ch == ClipLayout.val[j].channels[k]
                    col == ClipLayout.val[j].start + k - 1
                IN (EndsWithRotation(ch) /\ col < Len(FirstFrame)) =>
                     IF /\ j \notin {"UpperArm_L", "UpperArm_R"} \/ tpose_ref_path_used # TPoseBandai
                        /\ DictHas(tpose_ref_layout, j)
                        /\ ReferenceColumn(j, ch) >= 0
                     THEN SyntheticFrame[col + 1]
                            = tpose_ref_frame0.rows[ReferenceColumn(j, ch) + 1]
                     ELSE SyntheticFrame[col + 1] = 0

\* UpperArm_L's Zrotation is column 9 of the clip and column 8 of the
\* reference, whose UpperArm_L lists Yrotation first; Spine is not in the
\* reference
C3_Witness ==
    /\ JustPrepended /\ ReferenceAvailable
    /\ tp_read.header = ClipHeaderA /\ FirstFrame = ClipFrame("distinct", 1, 12)
    /\ tpose_ref_path_used = TPoseMotorica
    /\ tpose_ref_frame0.rows = RefFrame(1, 12)
    /\ SyntheticFrame = <<101, 102, 103, 1104, 1105, 1106, 0, 0, 0, 1109, 1108, 1107>>

(***************************************************************************)
(* C4: a reference file that cannot be read does not make the call fail    *)
(* and every clip is processed as if there were no reference: all zero     *)
(* rotations, the other columns as in the first frame.  As claimed, the    *)
(* reference and the forced-zero set are discarded whether the reader      *)
(* raises or yields no frame.                                              *)
(***************************************************************************)
ReaderRaised == ref_read # None /\ ~ref_read.ok
ReaderGaveNoFrame ==
    ref_read # None /\ ref_read.ok /\ ref_read.data.ndim = 2 /\ ref_read.data.shape[1] = 0
ReferenceUnreadable == ReaderRaised \/ ReaderGaveNoFrame
ReferenceAbsent == ReferencePath(work_dir) = None
ReferenceDiscarded ==
    /\ tpose_ref_layout = None /\ tpose_ref_frame0 = None
    /\ tpose_ref_path_used = None /\ force_zero_rotation_joints = {}
\* the loop is entered, and a clip comes out as with no reference
ProcessedAsWithoutReference ==
    /\ tp_pc = "raised" => (tp_read # None /\ (~tp_read.ok \/ UnexpectedShape(tp_read.data)))
    /\ JustPrepended =>
         \A c \in 0..(Len(FirstFrame) - 1) :
            SyntheticFrame[c + 1] =
                IF c \in RotationColumns(ClipLayout, Len(FirstFrame)) THEN 0
                ELSE FirstFrame[c + 1]

C4_UnreadableReferenceDiscarded ==
    (tp_pc # "start" /\ (ReferenceUnreadable \/ ReferenceAbsent)) =>
        (ReferenceDiscarded /\ ProcessedAsWithoutReference)

(***************************************************************************)
(* C4 as amended: when the reader raises, the reference and the            *)
(* forced-zero set are discarded; when it yields no frame, the reference   *)
(* frame and layout stay unset, and the path and the forced-zero set are   *)
(* kept but never used; in both cases, and with no reference file at all,  *)
(* the call does not fail and every clip is processed as if no reference   *)
(* existed.                                                                *)
(***************************************************************************)
C4_UnreadableReferenceFallsBack ==
    (tp_pc # "start" /\ (ReferenceUnreadable \/ ReferenceAbsent)) =>
        /\ (ReaderRaised \/ ReferenceAbsent) => ReferenceDiscarded
        /\ ~ReferenceAvailable
        /\ ProcessedAsWithoutReference

\* the bandai reference raised in the reader, and a clip was still written
\* with zero rotations
C4_Witness ==
    /\ JustPrepended /\ ReaderRaised /\ ReferencePath(work_dir) = TPoseBandai
    /\ tp_read.header = ClipHeaderA /\ FirstFrame = ClipFrame("distinct", 1, 12)
    /\ SyntheticFrame = <<101, 102, 103, 0, 0, 0, 0, 0, 0, 0, 0, 0>>
    /\ tp_pc = "done" /\ tp_i = 2

(***************************************************************************)
(* C5: for every well-formed header the layout lists the joints in         *)
(* declaration order, the first joint starts at column 0, every joint's    *)
(* start column plus its channel count is the next joint's start column    *)
(* (the header's total channel count for the last joint), and the start    *)
(* columns are strictly increasing.                                        *)
(***************************************************************************)
LayoutPartitions(lines, layout) ==
    LET keys == layout.keys
        n == Len(keys)
    IN /\ keys = DeclaredJoints(lines)
       /\ n >= 1 => layout.val[keys[1]].start = 0
       /\ \A k \in 1..n :
            /\ Len(layout.val[keys[k]].channels) = DeclaredCount(lines, k)
            /\ layout.val[keys[k]].start + Len(layout.val[keys[k]].channels)
                 = IF k < n THEN layout.val[keys[k + 1]].start ELSE TotalChannels(lines)
       /\ \A k \in 1..(n - 1) : layout.val[keys[k]].start < layout.val[keys[k + 1]].start

C5_StartColumnsPartition ==
    (joint_to_layout # None /\ WellFormed(header_lines))
        => LayoutPartitions(header_lines, joint_to_layout)

\* a well-formed header of three joints with different channel counts, parsed
C5_Witness ==
    /\ joint_to_layout # None /\ WellFormed(header_lines)
    /\ Len(joint_to_layout.keys) = 3
    /\ joint_to_layout.val[joint_to_layout.keys[2]].start = 6
    /\ joint_to_layout.val[joint_to_layout.keys[3]].start = 7

(***************************************************************************)
(* What the claims about build_smpl_bvh speak of.                          *)
(***************************************************************************)
\* the clip last read came as a matrix of frames
ReadAsMatrix == cn_read # None /\ cn_read.ok /\ cn_read.data.ndim = 2
RetargetedFrames == cn_read.data.shape[1]
RetargetedWidth == cn_read.data.shape[2]
RotationWidth == Max(RetargetedWidth - 3, 0)
\* the clip last read has been written to bvhSMPL
JustCanonicalized == cn_pc \in {"loop", "done"} /\ cn_i >= 1
\* the batch stopped on the clip last read
CanonStopped == cn_pc = "raised"
RetargetedRotation == SliceRowsColumns(cn_read.data, 1, 3, 0 - 1)
CanonicalRotation == SliceRowsColumns(cn_out.data, 0, 3, 0 - 1)

(***************************************************************************)
(* C6: build_smpl_bvh writes, for a retargeted clip of T frames, a clip of  *)
(* T - 1 frames whose frame r is retargeted frame r + 1: the first three    *)
(* columns are kept, a rotation block of 72 columns is kept as it is, and   *)
(* of any other block output column 3k + c is retargeted column 6k + c.     *)
(***************************************************************************)
C6_DropsFirstFrameKeepsFirstTriples ==
    (ReadAsMatrix /\ RetargetedFrames >= 1 /\ RetargetedWidth >= 3
       /\ RotationWidth % 3 = 0)
    => /\ JustCanonicalized
       /\ cn_out.data.ndim = 2
       /\ cn_out.data.shape[1] = RetargetedFrames - 1
       /\ \A r \in 1..(RetargetedFrames - 1) :
            LET out == cn_out.data.rows[r]
                src == cn_read.data.rows[r + 1]
            IN /\ Len(out) >= 3
               /\ \A k \in 1..3 : out[k] = src[k]
               /\ RotationWidth = CanonicalWidth => out = src
               /\ RotationWidth # CanonicalWidth =>
                    \A k \in 0..(RotationWidth \div 6), c \in 0..2 :
                      6 * k + c < RotationWidth =>
                        /\ 3 + 3 * k + c + 1 <= Len(out)
                        /\ out[3 + 3 * k + c + 1] = src[3 + 6 * k + c + 1]

(***************************************************************************)
(* C7, as the specification has it: a rotation block whose width is neither *)
(* 72 nor a multiple of 6 makes build_smpl_bvh raise: the clip gets no      *)
(* output file and the files written before it are the ones there.          *)
(***************************************************************************)
WrittenBeforeOnly ==
    /\ cn_i < Len(cn_files)
    /\ cn_written = [k \in 1..cn_i |-> OutName("bvhSMPL", cn_files[k])]
    /\ ~InSeq(cn_written, OutName("bvhSMPL", cn_files[cn_i + 1]))

C7_WidthsOffSixRaise ==
    (ReadAsMatrix /\ RotationWidth # CanonicalWidth /\ RotationWidth % 6 # 0)
    => (CanonStopped /\ WrittenBeforeOnly)

(***************************************************************************)
(* C7, as the code has it: a rotation block whose width is not a multiple   *)
(* of 3 makes build_smpl_bvh raise, the clip gets no output file and the    *)
(* files written before it are the ones there; a block of 6n + 3 columns    *)
(* is accepted when the clip has two frames or more, and written with       *)
(* 3(n + 1) rotation columns.                                               *)
(***************************************************************************)
C7_WidthsOffThreeRaise ==
    /\ (ReadAsMatrix /\ RotationWidth % 3 # 0)
       => (CanonStopped /\ WrittenBeforeOnly)
    /\ (ReadAsMatrix /\ RotationWidth % 6 = 3 /\ RetargetedFrames >= 2)
       => /\ JustCanonicalized
          /\ cn_out.data.shape
               = <<RetargetedFrames - 1, 3 + 3 * ((RotationWidth \div 6) + 1)>>

C7_Witness ==
    /\ ReadAsMatrix /\ RotationWidth % 3 # 0
    /\ CanonStopped /\ cn_i >= 1 /\ Len(cn_written) >= 1

(***************************************************************************)
(* C8, as the specification has it: canonicalizing a clip that has 72       *)
(* rotation columns already returns the clip's matrix, and canonicalizing   *)
(* the result once more changes nothing.                                    *)
(***************************************************************************)
C8_CanonicalClipReturnedIdentical ==
    (JustCanonicalized /\ ReadAsMatrix /\ RotationWidth = CanonicalWidth)
    => /\ cn_out.data = cn_read.data
       /\ CanonicalizeClip(cn_out.data) = Returns(cn_out.data)

(***************************************************************************)
(* C8, as the code has it: the channel reduction returns a rotation block   *)
(* of 72 columns as it is, so the written rotation block is the block of    *)
(* the retargeted frames 2..T, and reducing it once more returns it again.  *)
(* (The clip as a whole loses its first frame each time.)                   *)
(***************************************************************************)
C8_CanonicalRotationBlockKept ==
    (JustCanonicalized /\ ReadAsMatrix /\ RotationWidth = CanonicalWidth)
    => /\ CanonicalRotation = RetargetedRotation
       /\ SampleEveryThree2d(CanonicalRotation) = Returns(CanonicalRotation)
       /\ cn_out.data.shape[1] = Max(RetargetedFrames - 1, 0)

C8_Witness ==
    /\ JustCanonicalized /\ ReadAsMatrix /\ RotationWidth = CanonicalWidth
    /\ RetargetedFrames >= 2
    /\ CanonicalRotation.shape = <<RetargetedFrames - 1, CanonicalWidth>>

(***************************************************************************)
(* What the claims about build_smpl_npz speak of.                          *)
(***************************************************************************)
\* the clip last read has been saved to npz
JustConverted == nz_pc \in {"loop", "done"} /\ nz_i >= 1
CanonicalFrames == nz_read.data.shape[1]
\* the rotation triples a frame of the clip last read holds
InputTriples == Max(nz_read.data.shape[2] - 3, 0) \div 3
NamedJoints == Len(BVH_JOINT_NAMES)
\* the triple frame r of the clip last read holds at joint position p, in radians
SourceTriple(r, p) ==
    [c \in 1..3 |-> Deg2Rad(nz_read.data.rows[r][3 + 3 * (p - 1) + c])]
\* the triples of the named joints of frame r before and after the remapping
TriplesBefore(r) == [p \in 1..NamedJoints |-> SourceTriple(r, p)]
TriplesAfter(r) == SubSeq(rotation_s.rows[r], 1, NamedJoints)
Occurrences(seq, v) == Cardinality({k \in 1..Len(seq) : seq[k] = v})
Distinct(seq) == \A k, m \in 1..Len(seq) : seq[k] = seq[m] => k = m
Names(seq) == {seq[k] : k \in 1..Len(seq)}

(***************************************************************************)
(* C9: SMPL_JOINT_NAMES and BVH_JOINT_NAMES hold 24 distinct names each and *)
(* the same names; in every frame of a converted clip slot i of rotation_s  *)
(* holds the triple of the source joint named SMPL_JOINT_NAMES[i], every    *)
(* triple occurs among the named joints as often after the remapping as     *)
(* before it, and remapping rotation_s with the two lists exchanged gives   *)
(* the source order back.                                                   *)
(***************************************************************************)
C9_RemappingIsPermutation ==
    /\ Len(SMPL_JOINT_NAMES) = 24 /\ Len(BVH_JOINT_NAMES) = 24
    /\ Distinct(SMPL_JOINT_NAMES) /\ Distinct(BVH_JOINT_NAMES)
    /\ Names(SMPL_JOINT_NAMES) = Names(BVH_JOINT_NAMES)
    /\ JustConverted =>
         /\ rotation_s.shape[1] = CanonicalFrames
         /\ LET back == Reorder(rotation_s, BVH_JOINT_NAMES, SMPL_JOINT_NAMES)
            IN \A r \in 1..CanonicalFrames :
                 /\ \A i \in 1..NamedJoints :
                      \E p \in 1..NamedJoints :
                        /\ BVH_JOINT_NAMES[p] = SMPL_JOINT_NAMES[i]
                        /\ TriplesAfter(r)[i] = SourceTriple(r, p)
                 /\ \A v \in Names(TriplesBefore(r)) \cup Names(TriplesAfter(r)) :
                      Occurrences(TriplesAfter(r), v) = Occurrences(TriplesBefore(r), v)
                 /\ back.ok
                 /\ SubSeq(back.value.rows[r], 1, NamedJoints) = TriplesBefore(r)

\* a clip with distinct values is converted: slot 3, right_hip, holds the
\* triple of source position 6
C9_Witness ==
    /\ JustConverted /\ CanonicalFrames >= 1
    /\ rotation_s.rows[1][3] = <<Deg2Rad(1019), Deg2Rad(1020), Deg2Rad(1021)>>
    /\ rotation_s.rows[1][3] # SourceTriple(1, 3)

(***************************************************************************)
(* C10: every archive build_smpl_npz saves for a clip of T frames holds     *)
(* trans of shape [T, 3] and poses of shape [T, 24, 3], whatever the number *)
(* of triples in the clip, and no slot of poses beyond the 24 filled ones.  *)
(***************************************************************************)
C10_PosesHave24Joints ==
    JustConverted =>
      /\ nz_out.trans.shape = <<CanonicalFrames, 3>>
      /\ nz_out.poses.shape = <<CanonicalFrames, Len(SMPL_JOINT_NAMES), 3>>
      /\ \A r \in 1..CanonicalFrames :
           \A i \in 1..Len(nz_out.poses.rows[r]) : i <= Len(SMPL_JOINT_NAMES)

(***************************************************************************)
(* What the claims about a batch as a whole speak of.                      *)
(***************************************************************************)
\* prepend_tpose_frame has returned, or an exception has left it
TposeEnded == tp_pc \in {"done", "raised"}
\* the clips the loop of prepend_tpose_frame has taken up: the written ones
\* and, if an exception left the loop, the one being processed then
TposeVisited == tp_i + (IF tp_pc = "raised" THEN 1 ELSE 0)

(***************************************************************************)
(* C11: a malformed clip (unreadable, without a frame, or read as a 1-D     *)
(* matrix) does not stop a batch of prepend_tpose_frame: when the call has  *)
(* ended, every clip of the batch has been taken up, and all of them but    *)
(* the failed ones have been written.                                       *)
(***************************************************************************)
C11_FailedClipLeavesBatchRunning ==
    TposeEnded =>
      /\ TposeVisited = Len(bvh_paths)
      /\ \A k \in 1..Len(bvh_paths) :
           k # tp_i + 1 => InSeq(tp_written, OutName("bvhForC", bvh_paths[k]))

\* a name of the target list has no entry in the source list
MappingIncomplete ==
    \E i \in 1..Len(smpl_joint_names) : ~InSeq(bvh_joint_names, smpl_joint_names[i])

ExampleFrame == <<0, 100, 0, 0, 0, 0, 10, 20, 30>>
ExampleRun ==
    /\ stage # "idle"
    /\ FileAt(bvh_paths[1]).data.rows = <<ExampleFrame>>
    /\ trans_scale = Fraction(1, 100)
Synthesized == tp_pc = "done"
CanonicalizeEnded == stage \in {"convert", "end"} /\ cn_pc # "idle"
ConvertEnded == stage = "end" /\ nz_pc # "idle"
\* synthesis wrote the zero-rotation frame and the original frame after it
SynthesisAsStated ==
    tp_out.data.rows = << <<0, 100, 0, 0, 0, 0, 0, 0, 0>>, ExampleFrame >>

(***************************************************************************)
(* C13, as the specification has it: on the example clip synthesis writes   *)
(* [0,100,0, 0,0,0, 0,0,0] and the original frame; canonicalization then    *)
(* leaves one frame that carries pelvis's (0,0,0) and left_hip's            *)
(* (10,20,30); conversion completes with trans = [[0,1,0]] and the          *)
(* left_hip slot of poses derived from the Euler triple (10,20,30).         *)
(***************************************************************************)
C13_ExampleKeepsLeftHipAndConverts ==
    ExampleRun =>
      /\ Synthesized => SynthesisAsStated
      /\ CanonicalizeEnded =>
           /\ cn_pc = "done"
           /\ Len(cn_out.data.rows) = 1
           /\ cn_out.data.rows[1] = <<0, 100, 0, 0, 0, 0, 10, 20, 30>>
      /\ ConvertEnded =>
           /\ nz_pc = "done"
           /\ nz_out.trans.rows = << <<Float(0), Float(1), Float(0)>> >>
           /\ nz_out.poses.rows[1][2]
                = ToAxisAngle(FromEuler(<<Deg2Rad(10), Deg2Rad(20), Deg2Rad(30)>>, "zxy"))

(***************************************************************************)
(* C13, as the code has it: on the example clip synthesis writes            *)
(* [0,100,0, 0,0,0, 0,0,0] and the original frame; canonicalization then    *)
(* leaves the one frame [0,100,0, 0,0,0]: pelvis's triple, and left_hip's   *)
(* (10,20,30) dropped with the second half of the 6-column group;           *)
(* conversion raises on it and saves no archive.                            *)
(***************************************************************************)
C13_ExampleLosesLeftHipAndRaises ==
    ExampleRun =>
      /\ Synthesized => SynthesisAsStated
      /\ CanonicalizeEnded =>
           /\ cn_pc = "done"
           /\ cn_out.data.rows = << <<0, 100, 0, 0, 0, 0>> >>
      /\ ConvertEnded =>
           /\ nz_pc = "raised"
           /\ nz_out = None /\ nz_written = <<>>

C13_Witness ==
    /\ ExampleRun /\ Synthesized /\ SynthesisAsStated
    /\ CanonicalizeEnded /\ cn_out.data.rows = << <<0, 100, 0, 0, 0, 0>> >>
    /\ ConvertEnded /\ nz_pc = "raised"
    /\ nz_read.ok /\ nz_read.data.ndim = 2

(***************************************************************************)
(* What the claim about declarations the parser passes over speaks of.     *)
(***************************************************************************)
\* a CHANNELS line that declares more than the six channels of the format
DeclaresTooMany(parts) ==
    /\ IsChannelsLine(parts) /\ Len(parts) >= 3
    /\ parts[2] \in DOMAIN IntOfToken /\ IntOfToken[parts[2]] > 6
\* line k is a CHANNELS line with no ROOT or JOINT line before it
BeforeAnyJoint(lines, k) ==
    IsChannelsLine(lines[k]) /\ \A m \in 1..(k - 1) : ~IsJointLine(lines[m])
\* the header without the lines from k on that are of these two kinds
RECURSIVE WithoutPassedOver(_, _)
WithoutPassedOver(lines, k) ==
    IF k > Len(lines) THEN <<>>
    ELSE (IF DeclaresTooMany(lines[k]) \/ BeforeAnyJoint(lines, k)
          THEN <<>> ELSE <<lines[k]>>) \o WithoutPassedOver(lines, k + 1)

(***************************************************************************)
(* C14: a CHANNELS declaration of more than 6 channels, or one before any   *)
(* ROOT or JOINT declaration, is ignored: the layout is the layout of the   *)
(* header without these lines, so the joint of an over-long declaration     *)
(* keeps the channels it had (none, if it had no other declaration), the    *)
(* joints after it start where they would without it, and a declaration     *)
(* before any joint makes no entry.                                         *)
(***************************************************************************)
C14_PassedOverDeclarationsIgnored ==
    joint_to_layout # None =>
      joint_to_layout = ParseJointChannelsFromHeader(WithoutPassedOver(header_lines, 1))

\* the header without its CHANNELS lines that come before any joint
RECURSIVE WithoutEarlyChannels(_, _)
WithoutEarlyChannels(lines, k) ==
    IF k > Len(lines) THEN <<>>
    ELSE (IF BeforeAnyJoint(lines, k) THEN <<>> ELSE <<lines[k]>>)
         \o WithoutEarlyChannels(lines, k + 1)
\* the joint a CHANNELS line at k is about: the one of the last joint line before k
JointAbove(lines, k) ==
    lines[CHOOSE m \in 1..(k - 1) :
            IsJointLine(lines[m]) /\ \A n \in (m + 1)..(k - 1) : ~IsJointLine(lines[n])][2]
\* a CHANNELS line the parser takes: with a count int() reads and a token after it
TakenChannelsLine(parts) ==
    IsChannelsLine(parts) /\ Len(parts) >= 3 /\ parts[2] \in DOMAIN IntOfToken
\* line k is the last declaration taken for its joint
LastTakenFor(lines, k) ==
    /\ TakenChannelsLine(lines[k]) /\ ~BeforeAnyJoint(lines, k)
    /\ \A m \in (k + 1)..Len(lines) :
         (TakenChannelsLine(lines[m]) /\ ~BeforeAnyJoint(lines, m))
           => JointAbove(lines, m) # JointAbove(lines, k)

\* no joint name is declared by two ROOT or JOINT lines
DeclaredOnce(lines) ==
    \A a, b \in 1..Len(lines) :
      (a # b /\ IsJointLine(lines[a]) /\ IsJointLine(lines[b])) => lines[a][2] # lines[b][2]

(***************************************************************************)
(* C14, as the code has it: a CHANNELS declaration before any ROOT or JOINT *)
(* declaration is ignored (no entry, no error); a declaration of more than  *)
(* 6 channels is taken like any other: its joint gets the names listed, and *)
(* the joints after it start that many columns further on (each joint       *)
(* starting where the one before it ends, when no name is declared twice).  *)
(***************************************************************************)
C14_OnlyEarlyDeclarationsIgnored ==
    joint_to_layout # None =>
      /\ joint_to_layout
           = ParseJointChannelsFromHeader(WithoutEarlyChannels(header_lines, 1))
      /\ (\A k \in 1..Len(header_lines) : ~IsJointLine(header_lines[k]))
           => joint_to_layout = EmptyDict
      /\ \A k \in 1..Len(header_lines) :
           (DeclaresTooMany(header_lines[k]) /\ LastTakenFor(header_lines, k))
             => joint_to_layout.val[JointAbove(header_lines, k)].channels
                  = PySlice(header_lines[k], 2, 2 + IntOfToken[header_lines[k][2]])
      /\ DeclaredOnce(header_lines) =>
           \A i \in 1..(Len(joint_to_layout.keys) - 1) :
             joint_to_layout.val[joint_to_layout.keys[i + 1]].start
               = joint_to_layout.val[joint_to_layout.keys[i]].start
                   + Len(joint_to_layout.val[joint_to_layout.keys[i]].channels)

\* Hips declares seven channels, Spine after it starts at column 7
C14_Witness ==
    /\ joint_to_layout # None
    /\ header_lines = << <<"ROOT", "Hips">>,
                         <<"CHANNELS", "7">> \o Channels6 \o <<"Wrotation">>,
                         <<"JOINT", "Spine">> >>
    /\ Len(joint_to_layout.val["Hips"].channels) = 7
    /\ joint_to_layout.val["Spine"].start = 7

(***************************************************************************)
(* What the claims about the resolution of the reference speak of.         *)
(***************************************************************************)
Reference ==
    <<tpose_ref_path_used, tpose_ref_frame0, tpose_ref_layout,
      force_zero_rotation_joints, ref_read>>
Unresolved == tp_pc = "start"
NoClipTakenUp == tp_i = 0 /\ tp_read = None /\ tp_out = None /\ tp_written = <<>>
\* the clip read last was synthesized against the reference as it stands
SynthesizedAgainstReference ==
    tp_out.data.rows[1]
      = TposeFrame(FirstFrame, ClipLayout, tpose_ref_layout, tpose_ref_frame0,
                   force_zero_rotation_joints)

(***************************************************************************)
(* C15: the reference (file, first frame, layout, forced-zero joints) is    *)
(* resolved once, before the first clip is read, and no step after that     *)
(* changes it, whatever happens to the file: every clip of the batch is     *)
(* synthesized against the reference as resolved.                           *)
(***************************************************************************)
C15_ReferenceResolvedOnce ==
    /\ [](Unresolved => (NoClipTakenUp /\ tpose_ref_path_used = None /\ ref_read = None))
    /\ [](JustPrepended => SynthesizedAgainstReference)
    /\ [][~Unresolved => (~Unresolved' /\ Reference' = Reference)]_vars

\* the second clip of a batch is written with the reference's rotations after
\* the reference file has gone from the work directory
C15_Witness ==
    /\ JustPrepended /\ tp_i = 2
    /\ ReferenceAvailable
    /\ tpose_ref_path_used \notin work_dir.entries
    /\ SynthesizedAgainstReference
    /\ tp_out.data.rows[1]
         # TposeFrame(FirstFrame, ClipLayout, None, None, {})

\* the place of a name in the sorted listing
SortedPlace(fn) == CHOOSE k \in 1..Len(SortedNames) : SortedNames[k] = fn
\* the first of a set of names in sorted directory order, None for no name
FirstSorted(names) ==
    IF names = {} THEN None
    ELSE CHOOSE fn \in names : \A other \in names : SortedPlace(fn) <= SortedPlace(other)
\* the resolution is over and the reader gave an answer for the file chosen
ResolvedAndRead == tp_pc # "start" /\ ref_read # None /\ ref_read.ok
ResolvedNothingToRead == tp_pc # "start" /\ ref_read = None

(***************************************************************************)
(* C16, as the specification has it: T-pose.bvh is the reference if it      *)
(* exists; otherwise the first existing file in sorted order whose name     *)
(* starts with "T-pose-" and ends with ".bvh"; otherwise there is none.     *)
(***************************************************************************)
StatedReference(wd) ==
    IF TPoseExact \in wd.entries THEN TPoseExact
    ELSE FirstSorted({fn \in wd.entries :
                        fn.prefix = "T-pose" /\ fn.sep = "-" /\ fn.ext = ".bvh"})

C16_ExactThenFirstBvhName ==
    /\ ResolvedAndRead => tpose_ref_path_used = StatedReference(work_dir)
    /\ ResolvedNothingToRead => StatedReference(work_dir) = None
    /\ tp_pc # "start" /\ StatedReference(work_dir) = None => ref_read = None

(***************************************************************************)
(* C16, as the code has it: T-pose.bvh is the reference if it exists;       *)
(* otherwise, if the work directory can be listed, the first listed file    *)
(* in sorted order whose name starts with "T-pose-" and ends with ".bvh"    *)
(* in any letter case; otherwise there is none.                             *)
(***************************************************************************)
ReferenceByPriority(wd) ==
    IF TPoseExact \in wd.entries THEN TPoseExact
    ELSE IF ~wd.listable THEN None
    ELSE FirstSorted({fn \in wd.entries :
                        fn.prefix = "T-pose" /\ fn.sep = "-" /\ Lower(fn.ext) = ".bvh"})

C16_ExactThenFirstListedName ==
    /\ ResolvedAndRead => tpose_ref_path_used = ReferenceByPriority(work_dir)
    /\ ResolvedNothingToRead => ReferenceByPriority(work_dir) = None
    /\ tp_pc # "start" /\ ReferenceByPriority(work_dir) = None => ref_read = None

\* T-pose.bvh is taken although T-pose-bandai.bvh and T-pose-Motorica.BVH,
\* listed before it, are there
C16_Witness ==
    /\ ResolvedAndRead
    /\ {TPoseExact, TPoseBandai, TPoseMotorica} \subseteq work_dir.entries
    /\ work_dir.listable
    /\ tpose_ref_path_used = TPoseExact
    /\ force_zero_rotation_joints = {}

\* the rotation block handed to sample_every_three_2d and what it gives back
RotationRows == Max(RetargetedFrames - 1, 0)
Sampled == SampleEveryThree2d(RetargetedRotation)
\* 6-column groups of a width, a trailing group of 3 columns counting as one
SixColumnGroups(width) == (width + 3) \div 6
SampledWidth(width) ==
    IF width = CanonicalWidth THEN CanonicalWidth ELSE 3 * SixColumnGroups(width)

(***************************************************************************)
(* C17: a rotation block whose width is not a multiple of 3 makes           *)
(* sample_every_three_2d raise and the clip gets no output; for every       *)
(* other width the block returned has as many rows as the block given and   *)
(* a width that is a multiple of 3: 72 for a block of 72 columns, else 3    *)
(* times the number of 6-column groups, a trailing group of 3 counting.     *)
(***************************************************************************)
C17_SampledShape ==
    /\ (ReadAsMatrix /\ RotationWidth % 3 # 0)
       => /\ ~Sampled.ok
          /\ CanonStopped /\ WrittenBeforeOnly
    /\ (ReadAsMatrix /\ RotationWidth % 3 = 0)
       => /\ Sampled.ok
          /\ Sampled.value.ndim = 2
          /\ Sampled.value.shape = <<RotationRows, SampledWidth(RotationWidth)>>
          /\ Sampled.value.shape[2] % 3 = 0

====
